---------------------------- MODULE Spec2Model ----------------------------
(***************************************************************************)
(* The attendance app's service layer: the session manager (AuthService),  *)
(* the API client with its local cache (ApiService) and the classroom      *)
(* label parsing done inside registerStudent / processAttendance.          *)
(*                                                                         *)
(* The repository holds several builds of the same services:               *)
(*   AuthService  real  : src/unnamed/part_003                             *)
(*   AuthService  mock  : src/services/auth.ts                             *)
(*   ApiService "backend": src/services/api.ts 133-490 (standard/division) *)
(*   ApiService "mock"   : src/services/api.ts 558-795                     *)
(*   ApiService "label"  : src/services/api.ts 923-1267 (classroom label)  *)
(*                                                                         *)
(* Strings the code takes apart (classroom labels) are sequences of        *)
(* one-character strings; every other string is an atom.                   *)
(***************************************************************************)
EXTENDS Naturals, Sequences, FiniteSets

VARIABLES
    variant,    \* which ApiService build runs: "backend", "label" or "mock"
    userInfo,   \* Local Store, key AUTH_KEY: <<>> when absent, else <<user>>
    token,      \* Local Store, key TOKEN_KEY: <<>> when absent, else <<string>>
    pending,    \* AsyncStorage.setItem calls issued but not awaited (mock login)
    students,   \* Local Store, key STUDENTS_STORAGE_KEY: the parsed JSON array
    history,    \* Local Store, key ATTENDANCE_STORAGE_KEY: the parsed JSON array
    now,        \* Date.now(), a logical clock read by every record that is built
    classRoom,  \* the classroom text the screen passes to the service
    last,       \* the call that returned last, with what it was given and gave
    tasks,      \* service calls that overlap: where each one stands, what it read
    screen      \* the React state of the screen that is shown

vars == <<variant, userInfo, token, pending, students, history, now, classRoom, last,
          tasks, screen>>

-----------------------------------------------------------------------------
(* Bounds of the model. *)

MaxLabelLen == 3
MaxStudents == 2
MaxHistory == 2
MaxPending == 2
MaxInserts == 103
MaxClassSize == 40
MaxTasks == 2
MaxPhotos == 2
MaxInFlight == 2
MaxRuns == 2

(* Program constants. *)

HistoryCap == 100
MockHistoryCap == 50
DefaultLimit == 20

-----------------------------------------------------------------------------
(* Optional values: getItem gives null for a key that was never set. *)

Absent == <<>>
Some(v) == <<v>>
IsPresent(x) == x # <<>>

Usernames == {"teacher1", "teacher2", "admin"}
Passwords == {"password", "123456", "admin"}
Tokens == {"tokA", "tokB", ""}

(* Messages of the services. *)
NetworkError == "Network error. Please check your connection and try again."
InvalidLogin == "Invalid username or password"
NoMessage == ""

-----------------------------------------------------------------------------
(* What the server (or the transport) answers to one request.              *)
(*   status 0   : fetch rejected (no connectivity, transport failure)      *)
(*   body       : "json" a JSON object, "notjson" anything else            *)
(*   token      : access_token of a login answer                           *)
(*   message    : the payload's detail / message, "" when it has none      *)
(*   state      : the payload's status field ("success" | "error")         *)
(*   ctype      : the content-type header                                  *)

Response(status, body, tok, message, state, ctype) ==
    [status |-> status, body |-> body, token |-> tok, message |-> message,
     state |-> state, ctype |-> ctype]

ResponseOk(resp) == resp.status >= 200 /\ resp.status <= 299
Transport(resp) == resp.status # 0

LoginResponses ==
    { Response(200, "json", t, "", "", <<"application/json">>) : t \in Tokens }
    \cup { Response(200, "notjson", "", "", "", <<"text/html">>),
           Response(401, "json", "", "Incorrect username or password", "",
                    <<"application/json">>),
           Response(401, "json", "", "", "", <<"application/json">>),
           Response(500, "notjson", "", "", "", <<"text/html">>),
           Response(0, "notjson", "", "", "", <<>>) }

(* A call's record in `last`. ret is the success flag of the returned      *)
(* result (the returned boolean for isAuthenticated); req is <<>> when no  *)
(* HTTP request was issued, else <<request>>; out is a returned list or    *)
(* payload; resp is <<>> or the answer the request got; raised tells that   *)
(* the call ended by throwing to its caller; done is FALSE while the call  *)
(* is still waiting for the answer to its request.                         *)
Call(op, arg, ret, msg, req, out) ==
    [op |-> op, arg |-> arg, ret |-> ret, msg |-> msg, req |-> req, out |-> out,
     resp |-> <<>>, raised |-> FALSE, done |-> TRUE]

(* A call that issued its request and was answered resp. *)
Answered(call, resp) == [call EXCEPT !.resp = <<resp>>]

(* A call that ended by throwing, when raised is TRUE. *)
Ending(call, raised) == [call EXCEPT !.raised = raised]

NoTry(thrown) == thrown

(* try { ... } catch (error) { log; return ... }: whether an exception     *)
(* thrown inside the block leaves the function. The catch blocks of the    *)
(* services log and return, none rethrows.                                 *)
TryCatch(thrown) == FALSE

NoRequest == <<>>
NoCall == Call("none", <<>>, FALSE, NoMessage, NoRequest, <<>>)

(* No call overlaps another; no screen is shown. *)
NoTasks == <<>>
NoScreen == [route |-> "none"]

-----------------------------------------------------------------------------
(* AuthService, real build. *)

User(username, tok) ==
    [id |-> username, username |-> username,
     name |-> IF username = "admin" THEN "Admin User" ELSE username,
     accessToken |-> tok]

LoginRequest(username) ==
    [endpoint |-> "API_ENDPOINTS.login", grant_type |-> "password", username |-> username]

(* login: w1, w2 tell whether the first and the second setItem reject. *)
LoginThrows(resp, w1, w2) ==
    ~Transport(resp) \/ (ResponseOk(resp) /\ (resp.body # "json" \/ w1 \/ w2))

Login(username, resp, w1, w2) ==
    LET stored1 == Transport(resp) /\ ResponseOk(resp) /\ resp.body = "json" /\ ~w1
        stored2 == stored1 /\ ~w2
        failMsg == IF ~Transport(resp) THEN NetworkError
                   ELSE IF ResponseOk(resp) THEN NetworkError
                   ELSE IF resp.body = "json" /\ resp.message # "" THEN resp.message
                   ELSE InvalidLogin
    IN  /\ userInfo' = IF stored1 THEN Some(User(username, resp.token)) ELSE userInfo
        /\ token' = IF stored2 THEN Some(resp.token) ELSE token
        /\ last' = Ending(Answered(Call("login", username, stored2,
                                        IF stored2 THEN NoMessage ELSE failMsg,
                                        Some(LoginRequest(username)), <<>>), resp),
                          TryCatch(LoginThrows(resp, w1, w2)))
        /\ UNCHANGED <<tasks, screen, variant, pending, students, history, now, classRoom>>

(* getStoredUser / getStoredToken: r tells whether getItem rejects. *)
GetStoredUser(r) == IF r THEN Absent ELSE userInfo
GetStoredToken(r) == IF r THEN Absent ELSE token

IsAuthenticatedValue(r1, r2) ==
    IsPresent(GetStoredUser(r1)) /\ IsPresent(GetStoredToken(r2))

IsAuthenticated(r1, r2) ==
    /\ last' = Call("isAuthenticated", <<>>, IsAuthenticatedValue(r1, r2),
                    NoMessage, NoRequest, <<>>)
    /\ UNCHANGED <<tasks, screen, variant, userInfo, token, pending, students, history, now, classRoom>>

LogoutTokenKept(w1, w2) == token

(* logout: w1, w2 tell whether the first and the second removeItem reject; *)
(* a rejection of the first skips the second (one try block).              *)
LogoutUser(w1) == IF w1 THEN userInfo ELSE Absent
LogoutToken(w1, w2) == IF w1 \/ w2 THEN token ELSE Absent

Logout(w1, w2) ==
    /\ userInfo' = LogoutUser(w1)
    /\ token' = LogoutToken(w1, w2)
    /\ last' = Call("logout", [hadUser |-> IsPresent(userInfo)], TRUE, NoMessage,
                    NoRequest, <<>>)
    /\ UNCHANGED <<tasks, screen, variant, pending, students, history, now, classRoom>>

AuthHeadersStale(tok) == Some([Authorization |-> <<"Bearer ", "tokA">>])

(* getAuthHeaders of the backend ApiService: `token ? {...} : {}`, where   *)
(* the empty string is falsy.                                              *)
AuthHeaders(tok) ==
    IF IsPresent(tok) /\ tok[1] # "" THEN Some([Authorization |-> <<"Bearer ", tok[1]>>])
    ELSE <<>>

GetAuthHeaders(r) ==
    /\ last' = Call("getAuthHeaders", <<>>, TRUE, NoMessage, NoRequest,
                    AuthHeaders(GetStoredToken(r)))
    /\ UNCHANGED <<tasks, screen, variant, userInfo, token, pending, students, history, now, classRoom>>

GetStoredUserCall(r) ==
    /\ last' = Call("getStoredUser", <<>>, TRUE, NoMessage, NoRequest, GetStoredUser(r))
    /\ UNCHANGED <<tasks, screen, variant, userInfo, token, pending, students, history, now, classRoom>>

-----------------------------------------------------------------------------
(* AuthService, mock build (src/services/auth.ts). *)

mockUsers ==
    { [id |-> "1", username |-> "teacher1", password |-> "password", name |-> "John Doe"],
      [id |-> "2", username |-> "teacher2", password |-> "123456", name |-> "Jane Smith"],
      [id |-> "3", username |-> "admin", password |-> "admin", name |-> "Admin User"] }

MockFind(username, password) ==
    { u \in mockUsers : u.username = username /\ u.password = password }

MockUser(u) == [id |-> u.id, username |-> u.username, name |-> u.name]

(* login: setItem is called and not awaited, so the promise resolves with *)
(* the write still in flight.                                             *)
MockLoginPending(found) ==
    IF found # {} THEN Append(pending, MockUser(CHOOSE u \in found : TRUE)) ELSE pending

mockLogin(username, password) ==
    LET found == MockFind(username, password)
    IN  /\ found # {} => Len(pending) < MaxPending
        /\ pending' = MockLoginPending(found)
        /\ last' = Call("login", username, found # {},
                        IF found # {} THEN NoMessage ELSE InvalidLogin, NoRequest, <<>>)
        /\ UNCHANGED <<tasks, variant, userInfo, token, students, history, now, classRoom>>

(* The call made from outside the screens. *)
MockLogin(username, password) ==
    /\ mockLogin(username, password)
    /\ UNCHANGED screen

(* The un-awaited setItem completes. *)
MockWriteLands ==
    /\ pending # <<>>
    /\ userInfo' = Some(Head(pending))
    /\ pending' = Tail(pending)
    /\ UNCHANGED <<tasks, screen, variant, token, students, history, now, classRoom, last>>

MockLogout ==
    /\ userInfo' = Absent
    /\ last' = Call("logout", <<>>, TRUE, NoMessage, NoRequest, <<>>)
    /\ UNCHANGED <<tasks, screen, variant, token, pending, students, history, now, classRoom>>

MockIsAuthenticatedValue == IsPresent(userInfo)

MockIsAuthenticated ==
    /\ last' = Call("isAuthenticated", <<>>, MockIsAuthenticatedValue,
                    NoMessage, NoRequest, <<>>)
    /\ UNCHANGED <<tasks, screen, variant, userInfo, token, pending, students, history, now, classRoom>>

-----------------------------------------------------------------------------
(* Strings as sequences of characters. *)

UpperLetters ==
    <<"A", "B", "C", "D", "E", "F", "G", "H", "I", "J", "K", "L", "M",
      "N", "O", "P", "Q", "R", "S", "T", "U", "V", "W", "X", "Y", "Z">>
LowerLetters ==
    <<"a", "b", "c", "d", "e", "f", "g", "h", "i", "j", "k", "l", "m",
      "n", "o", "p", "q", "r", "s", "t", "u", "v", "w", "x", "y", "z">>
DigitChars == {"0", "1", "2", "3", "4", "5", "6", "7", "8", "9"}
UpperChars == { UpperLetters[i] : i \in DOMAIN UpperLetters }

LowerOf(ch) ==
    IF ch \in UpperChars
    THEN LowerLetters[CHOOSE i \in DOMAIN UpperLetters : UpperLetters[i] = ch]
    ELSE ch

toLowerCase(s) == [i \in 1..Len(s) |-> LowerOf(s[i])]

(* Every string over the characters cs of length at most n. *)
RECURSIVE StringsUpTo(_, _)
StringsUpTo(cs, n) ==
    IF n = 0 THEN { <<>> }
    ELSE LET shorter == StringsUpTo(cs, n - 1)
         IN  shorter \cup { Append(s, c) : s \in shorter, c \in cs }

(* The pattern without its closing anchor: /^([0-9]+)([A-Z])/ *)
classroomMatchUnanchored(label) ==
    LET ends == { k \in 2..Len(label) :
                    /\ \A i \in 1..(k - 1) : label[i] \in DigitChars
                    /\ label[k] \in UpperChars }
    IN  IF ends = {} THEN <<>>
        ELSE LET k == CHOOSE e \in ends : TRUE
             IN  Some([standard |-> SubSeq(label, 1, k - 1), division |-> <<label[k]>>])

(* data.classroom.match(/^([0-9]+)([A-Z])$/): <<>> for null, else the two  *)
(* capture groups.                                                        *)
classroomMatch(label) ==
    IF /\ Len(label) >= 2
       /\ \A i \in 1..(Len(label) - 1) : label[i] \in DigitChars
       /\ label[Len(label)] \in UpperChars
    THEN Some([standard |-> SubSeq(label, 1, Len(label) - 1),
               division |-> <<label[Len(label)]>>])
    ELSE <<>>

WithoutTh(standard) == standard

(* standard + 'th' *)
WithTh(standard) == standard \o <<"t", "h">>

-----------------------------------------------------------------------------
(* ApiService: messages, records, responses. *)

VideoRequired == "Video is required for student registration"
PhotoRequired == "At least one photo is required for attendance processing"
ClassroomFormat == "Classroom format should be like \"5A\", \"10B\", etc."
RegisterFailed == "Failed to register student"
AttendanceFailed == "Failed to process attendance"
UnexpectedFormat == "Unexpected response format"
AttendanceProcessed == "Attendance processed successfully"

RegisterEndpoint == "/vectordb/students/video"
AttendanceEndpoint == "/attendance/images-attendance"

(* A cached Student: the fields the services read back. id, name, videoUri *)
(* and createdAt are carried along and never read by the service layer.    *)
Student(rollNo, classroom) == [rollNo |-> rollNo, classroom |-> classroom]

AttendanceRecord(id, classroom, present, absent, total) ==
    [id |-> id, classroom |-> classroom,
     present |-> present, absent |-> absent, total |-> total]

Spreadsheet ==
    <<"application/vnd.openxmlformats-officedocument.", "spreadsheetml", ".sheet">>
JsonType == <<"application/json">>

IncludesAnyType(ctype) == ctype # <<>>

(* contentType?.includes('spreadsheetml'); <<>> is a missing header. *)
IncludesSpreadsheetml(ctype) == \E i \in DOMAIN ctype : ctype[i] = "spreadsheetml"

RegisterResponses ==
    { Response(200, "json", "", "Student registered", "success", JsonType),
      Response(200, "json", "", "No face detected in video", "error", JsonType),
      Response(422, "json", "", "", "", JsonType),
      Response(500, "notjson", "", "", "", <<"text/html">>),
      Response(0, "notjson", "", "", "", <<>>) }

AttendanceResponses ==
    { Response(200, "blob", "", "", "", Spreadsheet),
      Response(200, "json", "", "", "", JsonType),
      Response(200, "blob", "", "", "", <<>>),
      Response(404, "json", "", "No students enrolled", "", JsonType),
      Response(500, "json", "", "", "", JsonType),
      Response(500, "notjson", "", "", "", <<"text/html">>),
      Response(0, "notjson", "", "", "", <<>>) }

-----------------------------------------------------------------------------
(* ApiService, the parts the backend and the label build share. *)

(* The optional case-insensitive classroom filter of getStudents; the     *)
(* empty string is falsy and selects every student.                       *)
FilterByClassroom(list, classroom) ==
    IF classroom # <<>>
    THEN LET Same(s) == toLowerCase(s.classroom) = toLowerCase(classroom)
         IN  SelectSeq(list, Same)
    ELSE list

(* getStudents(classroom): r tells whether getItem rejects. *)
getStudents(classroom, r) ==
    IF r THEN <<>> ELSE FilterByClassroom(students, classroom)

(* getAttendanceHistory(classroom, limit): r tells whether getItem rejects. *)
getAttendanceHistory(classroom, limit, r) ==
    IF r THEN <<>>
    ELSE LET Same(rec) == toLowerCase(rec.classroom) = toLowerCase(classroom)
             filtered == IF classroom # <<>> THEN SelectSeq(history, Same) ELSE history
         IN  SubSeq(filtered, 1, IF Len(filtered) < limit THEN Len(filtered) ELSE limit)

storeStudentLocallyAlone(student, r, w) == <<student>>

updatedStudentsMerged(existingStudents, student) == Append(students, student)

(* [...existingStudents, student] *)
updatedStudents(existingStudents, student) == Append(existingStudents, student)

(* storeStudentLocally: the list that is persisted; r, w tell whether the *)
(* read and the write reject (both are caught and logged).                *)
storeStudentLocally(student, r, w) ==
    IF w THEN students ELSE updatedStudents(getStudents(<<>>, r), student)

storeAttendanceRecordAtEnd(record, r, w) == Append(history, record)

(* [record, ...existingRecords], cut to the cap *)
trimmedRecords(existingRecords, record) ==
    LET updatedRecords == <<record>> \o existingRecords
    IN  IF Len(updatedRecords) > HistoryCap
        THEN SubSeq(updatedRecords, 1, HistoryCap)
        ELSE updatedRecords

(* storeAttendanceRecordLocally: the list that is persisted. *)
storeAttendanceRecordLocally(record, r, w) ==
    IF w THEN history
    ELSE trimmedRecords(getAttendanceHistory(<<>>, DefaultLimit, r), record)

(* fetch rejects, or response.json() rejects on a body that is not JSON. *)
RegisterThrows(resp) == ~Transport(resp) \/ resp.body # "json"

(* The result registerStudent builds from the server's answer. *)
RegisterOutcome(resp) ==
    IF RegisterThrows(resp)
    THEN [ret |-> FALSE, msg |-> NetworkError]
    ELSE IF ResponseOk(resp) /\ resp.state = "success"
         THEN [ret |-> TRUE, msg |-> resp.message]
         ELSE [ret |-> FALSE,
               msg |-> IF resp.message # "" THEN resp.message ELSE RegisterFailed]

(* fetch rejects, or response.json() rejects on an error body that is not *)
(* JSON.                                                                  *)
AttendanceThrows(resp) ==
    ~Transport(resp) \/ (~ResponseOk(resp) /\ resp.body # "json")

(* The result processAttendance builds from the server's answer. *)
AttendanceOutcome(resp) ==
    IF AttendanceThrows(resp) THEN [ret |-> FALSE, msg |-> NetworkError, excelData |-> <<>>]
    ELSE IF ResponseOk(resp)
         THEN IF IncludesSpreadsheetml(resp.ctype)
              THEN [ret |-> TRUE, msg |-> AttendanceProcessed, excelData |-> Some(resp.body)]
              ELSE [ret |-> FALSE, msg |-> UnexpectedFormat, excelData |-> <<>>]
         ELSE [ret |-> FALSE, excelData |-> <<>>,
               msg |-> IF resp.message # "" THEN resp.message ELSE AttendanceFailed]

RegisterArg(rollNo, classroom, videoUri) ==
    [rollNo |-> rollNo, classroom |-> classroom, videoUri |-> videoUri]

AttendanceArg(classroom, photoUris) ==
    [classroom |-> classroom, photoUris |-> photoUris]

RegisterRequest(rollNo, standard, division, headers) ==
    [endpoint |-> RegisterEndpoint, roll_number |-> rollNo,
     standard |-> standard, division |-> division, headers |-> headers]

AttendanceRequest(standard, division, photoUris, headers) ==
    [endpoint |-> AttendanceEndpoint, standard |-> standard, division |-> division,
     images |-> Len(photoUris), headers |-> headers]

FalsyUndefinedOnly(opt) == opt = Absent

(* `!data.videoUri`: undefined and the empty string are both falsy. *)
Falsy(opt) == opt = Absent \/ opt = Some("")

(* Math.round(totalStudents * 0.85) *)
EstimatedPresent(total) == (85 * total + 50) \div 100

-----------------------------------------------------------------------------
(* ApiService, backend build (standard and division given separately).     *)
(* r, r1, r2 and w tell whether a getItem / setItem of the call rejects.   *)

registerStudentStoresFirst(rollNo, standard, division, videoUri, resp, r, w) ==
    LET classroom == standard \o division
        outcome == RegisterOutcome(resp)
    IN  /\ variant = "backend"
        /\ Len(students) < MaxStudents
        /\ students' = IF Transport(resp) /\ ResponseOk(resp)
                       THEN Append(students, Student(rollNo, classroom))
                       ELSE students
        /\ last' = Answered(Call("registerStudent", RegisterArg(rollNo, classroom, videoUri),
                                 outcome.ret, outcome.msg, NoRequest, <<>>), resp)
        /\ UNCHANGED <<tasks, variant, userInfo, token, pending, history, now, classRoom>>

registerStudent(rollNo, standard, division, videoUri, resp, r, w) ==
    LET classroom == standard \o division
        arg == RegisterArg(rollNo, classroom, videoUri)
        outcome == RegisterOutcome(resp)
        request == RegisterRequest(rollNo, standard, division,
                                   AuthHeaders(GetStoredToken(FALSE)))
    IN  /\ variant = "backend"
        /\ IF Falsy(videoUri)
           THEN /\ last' = Call("registerStudent", arg, FALSE, VideoRequired, NoRequest, <<>>)
                /\ UNCHANGED students
           ELSE /\ outcome.ret => Len(students) < MaxStudents
                /\ students' = IF outcome.ret
                               THEN storeStudentLocally(Student(rollNo, classroom), r, w)
                               ELSE students
                /\ last' = Ending(Answered(Call("registerStudent", arg, outcome.ret,
                                                outcome.msg, Some(request), <<>>), resp),
                                  TryCatch(\/ RegisterThrows(resp)
                                           \/ outcome.ret /\ TryCatch(TryCatch(r) \/ w)))
        /\ UNCHANGED <<tasks, variant, userInfo, token, pending, history, now, classRoom>>

(* The call made from outside the screens. *)
RegisterStudent(rollNo, standard, division, videoUri, resp, r, w) ==
    /\ registerStudent(rollNo, standard, division, videoUri, resp, r, w)
    /\ UNCHANGED screen

processAttendance(standard, division, photoUris, resp, r1, r2, w) ==
    LET classroom == standard \o division
        arg == AttendanceArg(classroom, photoUris)
        outcome == AttendanceOutcome(resp)
        request == AttendanceRequest(standard, division, photoUris,
                                     AuthHeaders(GetStoredToken(FALSE)))
        totalStudents == Len(getStudents(classroom, r1))
        estimatedPresent == EstimatedPresent(totalStudents)
        record == AttendanceRecord(now, classroom, estimatedPresent,
                                   totalStudents - estimatedPresent, totalStudents)
    IN  /\ variant = "backend"
        /\ IF photoUris = <<>>
           THEN /\ last' = Call("processAttendance", arg, FALSE, PhotoRequired, NoRequest, <<>>)
                /\ UNCHANGED <<history, now>>
           ELSE /\ history' = IF outcome.ret
                              THEN storeAttendanceRecordLocally(record, r2, w)
                              ELSE history
                /\ now' = IF outcome.ret THEN now + 1 ELSE now
                /\ last' = Ending(Answered(Call("processAttendance", arg, outcome.ret,
                                                outcome.msg, Some(request),
                                                outcome.excelData), resp),
                                  TryCatch(\/ AttendanceThrows(resp)
                                           \/ outcome.ret /\ TryCatch(r1)
                                           \/ outcome.ret /\ TryCatch(TryCatch(r2) \/ w)))
        /\ UNCHANGED <<tasks, screen, variant, userInfo, token, pending, students, classRoom>>

(* The call, while the model's history bound leaves room for its record. *)
ProcessAttendance(standard, division, photoUris, resp, r1, r2, w) ==
    /\ (photoUris # <<>> /\ AttendanceOutcome(resp).ret) => now <= MaxHistory
    /\ processAttendance(standard, division, photoUris, resp, r1, r2, w)

(* The same call on a long history. *)
ProcessAttendanceLong(standard, division, photoUris, resp, r1, r2, w) ==
    /\ now <= MaxInserts
    /\ processAttendance(standard, division, photoUris, resp, r1, r2, w)

-----------------------------------------------------------------------------
(* ApiService, label build (the classroom label is parsed by the call). *)

RegisterStudentLabel(rollNo, classroom, videoUri, resp, r, w) ==
    LET arg == RegisterArg(rollNo, classroom, videoUri)
        match == classroomMatch(classroom)
        outcome == RegisterOutcome(resp)
        request == RegisterRequest(rollNo, WithTh(match[1].standard),
                                   match[1].division, <<>>)
    IN  /\ variant = "label"
        /\ IF Falsy(videoUri)
           THEN /\ last' = Call("registerStudent", arg, FALSE, VideoRequired, NoRequest, <<>>)
                /\ UNCHANGED students
           ELSE IF match = <<>>
           THEN /\ last' = Call("registerStudent", arg, FALSE, ClassroomFormat, NoRequest, <<>>)
                /\ UNCHANGED students
           ELSE /\ outcome.ret => Len(students) < MaxStudents
                /\ students' = IF outcome.ret
                               THEN storeStudentLocally(Student(rollNo, classroom), r, w)
                               ELSE students
                /\ last' = Ending(Answered(Call("registerStudent", arg, outcome.ret,
                                                outcome.msg, Some(request), <<>>), resp),
                                  TryCatch(\/ RegisterThrows(resp)
                                           \/ outcome.ret /\ TryCatch(TryCatch(r) \/ w)))
        /\ UNCHANGED <<tasks, screen, variant, userInfo, token, pending, history, now, classRoom>>

processAttendanceLabel(classroom, photoUris, resp, r, w) ==
    LET arg == AttendanceArg(classroom, photoUris)
        match == classroomMatch(classroom)
        outcome == AttendanceOutcome(resp)
        request == AttendanceRequest(WithTh(match[1].standard), match[1].division,
                                     photoUris, <<>>)
        record == AttendanceRecord(now, classroom, 0, 0, 0)
    IN  /\ variant = "label"
        /\ IF photoUris = <<>>
           THEN /\ last' = Call("processAttendance", arg, FALSE, PhotoRequired, NoRequest, <<>>)
                /\ UNCHANGED <<history, now>>
           ELSE IF match = <<>>
           THEN /\ last' = Call("processAttendance", arg, FALSE, ClassroomFormat, NoRequest, <<>>)
                /\ UNCHANGED <<history, now>>
           ELSE /\ history' = IF outcome.ret
                              THEN storeAttendanceRecordLocally(record, r, w)
                              ELSE history
                /\ now' = IF outcome.ret THEN now + 1 ELSE now
                /\ last' = Ending(Answered(Call("processAttendance", arg, outcome.ret,
                                                outcome.msg, Some(request),
                                                outcome.excelData), resp),
                                  TryCatch(\/ AttendanceThrows(resp)
                                           \/ outcome.ret /\ TryCatch(TryCatch(r) \/ w)))
        /\ UNCHANGED <<tasks, variant, userInfo, token, pending, students>>

ProcessAttendanceLabel(classroom, photoUris, resp, r, w) ==
    /\ (photoUris # <<>> /\ classroomMatch(classroom) # <<>> /\ AttendanceOutcome(resp).ret)
          => now <= MaxHistory
    /\ processAttendanceLabel(classroom, photoUris, resp, r, w)
    /\ UNCHANGED <<screen, classRoom>>

ProcessAttendanceLabelLong(classroom, photoUris, resp, r, w) ==
    /\ now <= MaxInserts
    /\ processAttendanceLabel(classroom, photoUris, resp, r, w)
    /\ UNCHANGED <<screen, classRoom>>

-----------------------------------------------------------------------------
(* Reads and resets, the same in the backend and the label build. *)

GetStudents(classroom, r) ==
    /\ variant \in {"backend", "label"}
    /\ last' = Call("getStudents", classroom, TRUE, NoMessage, NoRequest,
                    getStudents(classroom, r))
    /\ UNCHANGED <<tasks, screen, variant, userInfo, token, pending, students, history, now, classRoom>>

GetAttendanceHistory(classroom, limit, r) ==
    /\ variant \in {"backend", "label"}
    /\ last' = Call("getAttendanceHistory", [classroom |-> classroom, limit |-> limit],
                    TRUE, NoMessage, NoRequest,
                    getAttendanceHistory(classroom, limit, r))
    /\ UNCHANGED <<tasks, screen, variant, userInfo, token, pending, students, history, now, classRoom>>

(* saveAttendanceRecord(record) -> storeAttendanceRecordLocally(record) *)
SaveAttendanceRecord(classroom, r, w) ==
    /\ variant \in {"backend", "label"}
    /\ now <= MaxInserts
    /\ history' = storeAttendanceRecordLocally(AttendanceRecord(now, classroom, 0, 0, 0), r, w)
    /\ now' = now + 1
    /\ last' = Call("saveAttendanceRecord", classroom, TRUE, NoMessage, NoRequest, <<>>)
    /\ UNCHANGED <<tasks, screen, variant, userInfo, token, pending, students, classRoom>>

clearWholeStore(w1, w2) ==
    /\ students' = <<>> /\ history' = <<>>
    /\ userInfo' = Absent /\ token' = Absent
    /\ last' = Call("clearAllLocalData", <<>>, TRUE, NoMessage, NoRequest, <<>>)
    /\ UNCHANGED <<tasks, screen, variant, pending, now, classRoom>>

(* clearAllLocalData: two removeItem calls in one try block. *)
clearAllLocalData(w1, w2) ==
    /\ variant \in {"backend", "label"}
    /\ students' = IF w1 THEN students ELSE <<>>
    /\ history' = IF w1 \/ w2 THEN history ELSE <<>>
    /\ last' = Call("clearAllLocalData", <<>>, TRUE, NoMessage, NoRequest, <<>>)
    /\ UNCHANGED <<tasks, screen, variant, userInfo, token, pending, now, classRoom>>

-----------------------------------------------------------------------------
(* ApiService, mock build (src/services/api.ts 558-795): no server, the    *)
(* Local Store is the only data source.                                    *)

DuplicateStudent == "Student with this roll number already exists in the class"
NoStudentsFound == "No students found for this classroom"

(* mockStudentData: ten students of 5A and three of 10B. *)
mockStudentData ==
    [i \in 1..13 |->
        Student(<<"01", "02", "03", "04", "05", "06", "07", "08", "09", "10",
                  "11", "12", "13">>[i],
                IF i <= 10 THEN <<"5", "A">> ELSE <<"1", "0", "B">>)]

(* initializeMockData: seeds the list when the key was never written. *)
InitializeMockData(r, w) ==
    /\ variant = "mock"
    /\ students' = IF ~r /\ ~w /\ students = <<>> THEN mockStudentData ELSE students
    /\ last' = Call("initializeMockData", <<>>, TRUE, NoMessage, NoRequest, <<>>)
    /\ UNCHANGED <<tasks, screen, variant, userInfo, token, pending, history, now, classRoom>>

findNone(list, rollNo, classroom) == {}

(* students.find(s => s.rollNo === data.rollNo && s.classroom === data.classroom) *)
findExisting(list, rollNo, classroom) ==
    { i \in DOMAIN list : list[i].rollNo = rollNo /\ list[i].classroom = classroom }

(* registerStudent: refuses a roll number already cached for the classroom. *)
RegisterStudentMock(rollNo, classroom, videoUri, r, w) ==
    LET arg == RegisterArg(rollNo, classroom, videoUri)
        existingStudent == findExisting(students, rollNo, classroom)
        thrown == r \/ (existingStudent = {} /\ w)
        ok == ~thrown /\ existingStudent = {}
    IN  /\ variant = "mock"
        /\ ok => Len(students) < MaxStudents
        /\ students' = IF ok THEN Append(students, Student(rollNo, classroom)) ELSE students
        /\ last' = Ending(Call("registerStudent", arg, ok,
                               IF thrown THEN RegisterFailed
                               ELSE IF ok THEN NoMessage ELSE DuplicateStudent,
                               NoRequest, <<>>),
                          TryCatch(thrown))
        /\ UNCHANGED <<tasks, screen, variant, userInfo, token, pending, history, now, classRoom>>

CountAll(results, status) == Len(results)

(* results.filter(r => r.status === status).length *)
CountStatus(results, status) ==
    Cardinality({ i \in DOMAIN results : results[i] = status })

saveAttendanceRecordUncapped(record, r, w) == <<record>> \o history

(* saveAttendanceRecord: the list that is persisted; a rejected read or   *)
(* write is caught and nothing is saved.                                  *)
saveAttendanceRecordMock(record, r, w) ==
    LET records == <<record>> \o history
    IN  IF r \/ w THEN history
        ELSE IF Len(records) > MockHistoryCap
             THEN SubSeq(records, 1, MockHistoryCap)
             ELSE records

(* processAttendance: every student of the classroom is marked present or *)
(* absent at random; the record keeps the counts, so the marks are drawn  *)
(* as "the first k students are present".                                 *)
processAttendanceMock(classroom, k, r1, r2, w) ==
    LET arg == AttendanceArg(classroom, <<"photo.jpg">>)
        inClass == getStudents(classroom, r1)
        results == [i \in 1..Len(inClass) |-> IF i <= k THEN "present" ELSE "absent"]
        record == AttendanceRecord(now, classroom, CountStatus(results, "present"),
                                   CountStatus(results, "absent"), Len(results))
        ok == inClass # <<>>
    IN  /\ variant = "mock"
        /\ k <= Len(inClass)
        /\ history' = IF ok THEN saveAttendanceRecordMock(record, r2, w) ELSE history
        /\ now' = IF ok THEN now + 1 ELSE now
        /\ last' = Call("processAttendance", arg, ok,
                        IF ok THEN NoMessage ELSE NoStudentsFound, NoRequest,
                        IF ok THEN results ELSE <<>>)
        /\ UNCHANGED <<tasks, screen, variant, userInfo, token, pending, students, classRoom>>

ProcessAttendanceMock(classroom, k, r1, r2, w) ==
    /\ getStudents(classroom, r1) # <<>> => now <= MaxHistory
    /\ processAttendanceMock(classroom, k, r1, r2, w)

SaveAttendanceRecordMock(classroom, r, w) ==
    /\ variant = "mock"
    /\ now <= MaxInserts
    /\ history' = saveAttendanceRecordMock(AttendanceRecord(now, classroom, 0, 0, 0), r, w)
    /\ now' = now + 1
    /\ last' = Call("saveAttendanceRecord", classroom, TRUE, NoMessage, NoRequest, <<>>)
    /\ UNCHANGED <<tasks, screen, variant, userInfo, token, pending, students, classRoom>>

GetAttendanceHistoryMock(classroom, limit, r) ==
    /\ variant = "mock"
    /\ last' = Call("getAttendanceHistory", [classroom |-> classroom, limit |-> limit],
                    TRUE, NoMessage, NoRequest,
                    getAttendanceHistory(classroom, limit, r))
    /\ UNCHANGED <<tasks, screen, variant, userInfo, token, pending, students, history, now, classRoom>>

-----------------------------------------------------------------------------
(* ApiService, backend build: the roster of the server and the report file. *)

SaveFailed == "Failed to save Excel file"
ProcessFailed == "Failed to process Excel file"
Downloaded == "Attendance report downloaded successfully!"

StudentsResponses ==
    { Response(200, "students", "", "", "", JsonType),
      Response(200, "json", "", "", "", JsonType),
      Response(200, "notjson", "", "", "", <<"text/html">>),
      Response(404, "json", "", "Not Found", "", JsonType),
      Response(0, "notjson", "", "", "", <<>>) }

(* fetch rejects, response.json() rejects, or the payload has no list of *)
(* enrolled students for Object.entries.                                 *)
StudentsThrows(resp) ==
    ~Transport(resp) \/ (ResponseOk(resp) /\ resp.body # "students")

(* getStudentsFromBackend: the roster is returned, never cached. *)
GetStudentsFromBackend(resp, r) ==
    LET request == [endpoint |-> "API_ENDPOINTS.getStudents",
                    headers |-> AuthHeaders(GetStoredToken(r))]
        roster == IF Transport(resp) /\ ResponseOk(resp) /\ resp.body = "students"
                  THEN << Student("01", <<"Unknown">>) >>
                  ELSE <<>>
    IN  /\ variant = "backend"
        /\ last' = Ending(Answered(Call("getStudentsFromBackend", <<>>, TRUE, NoMessage,
                                        Some(request), roster), resp),
                          TryCatch(StudentsThrows(resp)))
        /\ UNCHANGED <<tasks, screen, variant, userInfo, token, pending, students, history, now, classRoom>>

ResolvedAlways(decoded, thrown) == decoded

(* The inner try block of reader.onload: resolve({success: true}) at its   *)
(* end, resolve({success: false}) in its catch.                            *)
Resolved(decoded, thrown) == decoded /\ ~thrown

(* downloadExcelFile: decoded tells whether the FileReader loads (onload) *)
(* or fails (onerror); written and shared whether writeAsStringAsync and  *)
(* shareAsync resolve; available is Sharing.isAvailableAsync(). The       *)
(* returned effects tell whether the file was written and what became of  *)
(* the sharing: "notAsked", "unavailable", "offered" or "failed".         *)
DownloadExcelFile(classroom, decoded, written, available, shared) ==
    LET shareCalled == decoded /\ written /\ available
        thrown == decoded /\ (~written \/ (shareCalled /\ ~shared))
        ok == Resolved(decoded, thrown)
        effects == [written |-> decoded /\ written,
                    sharing |-> IF ~(decoded /\ written) THEN "notAsked"
                                ELSE IF ~available THEN "unavailable"
                                ELSE IF shared THEN "offered" ELSE "failed",
                    filePath |-> IF ok THEN Some(<<"attendance_", classroom, ".xlsx">>)
                                 ELSE <<>>]
    IN  /\ variant \in {"backend", "label"}
        /\ last' = Ending(Call("downloadExcelFile", classroom, ok,
                               IF ~decoded THEN ProcessFailed
                               ELSE IF ok THEN Downloaded ELSE SaveFailed,
                               NoRequest, effects),
                          TryCatch(thrown))
        /\ UNCHANGED <<tasks, screen, variant, userInfo, token, pending, students, history, now, classRoom>>

-----------------------------------------------------------------------------
(* The screens. A handler runs up to its await of the service call and    *)
(* goes on when the call has returned; `calls` holds what the calls that  *)
(* have not returned yet were given.                                      *)

NeverDisabled(flag) == FALSE

(* disabled={isLoading} / disabled={isProcessing}: a disabled button does *)
(* not call its onPress.                                                  *)
Disabled(flag) == flag

(* What the image picker resolves with. *)
PickerResult(canceled, assets) == [canceled |-> canceled, assets |-> assets]
CameraResults ==
    { PickerResult(TRUE, <<>>), PickerResult(FALSE, <<>>), PickerResult(FALSE, <<"cam.jpg">>) }
GalleryResults ==
    { PickerResult(TRUE, <<>>), PickerResult(FALSE, <<>>), PickerResult(FALSE, <<"g1.jpg">>),
      PickerResult(FALSE, <<"g1.jpg", "g2.jpg">>) }

(* newUris.splice(index, 1), positions counted from 1 *)
Splice(list, index) ==
    SubSeq(list, 1, index - 1) \o SubSeq(list, index + 1, Len(list))

(* The take-attendance screen (src/app/take-attendance.tsx). *)
TakeAttendanceScreen ==
    [route |-> "TakeAttendance", photosUploaded |-> FALSE, photoUris |-> <<>>,
     showResults |-> FALSE, isProcessing |-> FALSE, calls |-> <<>>]

setClassRoom(text) ==
    /\ screen.route = "TakeAttendance" /\ ~screen.showResults
    /\ classRoom' = text
    /\ UNCHANGED <<variant, userInfo, token, pending, students, history, now, last, tasks,
                   screen>>

(* `!result.canceled && result.assets[0]` *)
openCamera(result) ==
    /\ screen.route = "TakeAttendance" /\ ~screen.showResults
    /\ Len(screen.photoUris) + Len(result.assets) <= MaxPhotos
    /\ screen' = IF ~result.canceled /\ result.assets # <<>>
                 THEN [screen EXCEPT !.photoUris = Append(@, result.assets[1]),
                                     !.photosUploaded = TRUE]
                 ELSE screen
    /\ UNCHANGED <<variant, userInfo, token, pending, students, history, now, classRoom,
                   last, tasks>>

(* `!result.canceled && result.assets`: the list is not looked into. *)
openGallery(result) ==
    /\ screen.route = "TakeAttendance" /\ ~screen.showResults
    /\ Len(screen.photoUris) + Len(result.assets) <= MaxPhotos
    /\ screen' = IF ~result.canceled
                 THEN [screen EXCEPT !.photoUris = @ \o result.assets,
                                     !.photosUploaded = TRUE]
                 ELSE screen
    /\ UNCHANGED <<variant, userInfo, token, pending, students, history, now, classRoom,
                   last, tasks>>

removePhoto(index) ==
    LET newUris == Splice(screen.photoUris, index)
    IN  /\ screen.route = "TakeAttendance" /\ ~screen.showResults
        /\ index \in DOMAIN screen.photoUris
        /\ screen' = [screen EXCEPT !.photoUris = newUris,
                                    !.photosUploaded = IF newUris = <<>> THEN FALSE ELSE @]
        /\ UNCHANGED <<variant, userInfo, token, pending, students, history, now, classRoom,
                       last, tasks>>

(* The 'Clear All' button of the confirmation. *)
clearAllPhotos ==
    /\ screen.route = "TakeAttendance" /\ ~screen.showResults
    /\ screen.photoUris # <<>>
    /\ screen' = [screen EXCEPT !.photoUris = <<>>, !.photosUploaded = FALSE]
    /\ UNCHANGED <<variant, userInfo, token, pending, students, history, now, classRoom,
                   last, tasks>>

(* handleTakeAttendance, up to its await. *)
handleTakeAttendance ==
    /\ screen.route = "TakeAttendance" /\ ~screen.showResults
    /\ ~Disabled(screen.isProcessing)
    /\ Len(screen.calls) < MaxInFlight
    /\ screen' = IF classRoom = <<>> \/ screen.photoUris = <<>>
                 THEN screen
                 ELSE [screen EXCEPT !.isProcessing = TRUE,
                                     !.calls = Append(@, AttendanceArg(classRoom,
                                                                       screen.photoUris))]
    /\ UNCHANGED <<variant, userInfo, token, pending, students, history, now, classRoom,
                   last, tasks>>

(* handleTakeAttendance, from the return of processAttendance on. *)
TakeAttendanceReturns(resp) ==
    /\ screen.route = "TakeAttendance"
    /\ screen.calls # <<>>
    /\ AttendanceOutcome(resp).ret => now <= MaxHistory
    /\ processAttendanceLabel(Head(screen.calls).classroom, Head(screen.calls).photoUris,
                              resp, FALSE, FALSE)
    /\ screen' = [screen EXCEPT !.isProcessing = FALSE,
                                !.showResults = @ \/ (last'.ret /\ last'.out # <<>>),
                                !.calls = Tail(@)]
    /\ UNCHANGED classRoom

(* The 'Process Another Class' button of the results. *)
ProcessAnotherClass ==
    /\ screen.route = "TakeAttendance" /\ screen.showResults
    /\ screen' = [screen EXCEPT !.showResults = FALSE, !.photoUris = <<>>,
                                !.photosUploaded = FALSE]
    /\ classRoom' = <<>>
    /\ UNCHANGED <<variant, userInfo, token, pending, students, history, now, last, tasks>>

(* The register-student screen (src/app/register-student.tsx). *)
ProcessingSteps ==
    << "Uploading video to server...", "Extracting frames from video...",
       "Detecting faces in frames...", "Generating face embeddings...",
       "Storing in vector database..." >>

RegisterStudentScreen ==
    [route |-> "RegisterStudent", videoUploaded |-> FALSE, isLoading |-> FALSE,
     processingStep |-> "", timers |-> <<>>, calls |-> <<>>]

(* openCamera / openGallery of this screen: `!result.canceled && result.assets[0]` *)
pickVideo(result) ==
    /\ screen.route = "RegisterStudent"
    /\ screen' = IF ~result.canceled /\ result.assets # <<>>
                 THEN [screen EXCEPT !.videoUploaded = TRUE]
                 ELSE screen
    /\ UNCHANGED <<variant, userInfo, token, pending, students, history, now, classRoom,
                   last, tasks>>

(* handleRegister, up to its await: filled tells whether name, roll number, *)
(* standard and division are all given. The five timers are armed and     *)
(* never cleared.                                                         *)
handleRegister(filled, rollNo) ==
    /\ screen.route = "RegisterStudent"
    /\ ~Disabled(screen.isLoading)
    /\ Len(screen.calls) < MaxInFlight
    /\ Len(screen.timers) < MaxRuns
    /\ screen' = IF ~filled \/ ~screen.videoUploaded
                 THEN screen
                 ELSE [screen EXCEPT !.isLoading = TRUE,
                                     !.processingStep = "Preparing video upload...",
                                     !.timers = Append(@, ProcessingSteps),
                                     !.calls = Append(@, RegisterArg(rollNo, <<"5", "A">>,
                                                                     Some("file:///video.mp4")))]
    /\ UNCHANGED <<variant, userInfo, token, pending, students, history, now, classRoom,
                   last, tasks>>

(* The next timer of one handleRegister run fires; the timers of a later  *)
(* run were armed later, each fires after the same timer of an earlier    *)
(* run.                                                                   *)
TimerFires(run) ==
    /\ screen.route = "RegisterStudent"
    /\ run \in DOMAIN screen.timers
    /\ screen.timers[run] # <<>>
    /\ \A earlier \in 1..(run - 1) : Len(screen.timers[earlier]) < Len(screen.timers[run])
    /\ screen' = [screen EXCEPT !.processingStep = Head(screen.timers[run]),
                                !.timers[run] = Tail(@)]
    /\ UNCHANGED <<variant, userInfo, token, pending, students, history, now, classRoom,
                   last, tasks>>

(* handleRegister, from the return of registerStudent on (its finally). *)
RegisterReturns(resp) ==
    /\ screen.route = "RegisterStudent"
    /\ screen.calls # <<>>
    /\ registerStudent(Head(screen.calls).rollNo, <<"5">>, <<"A">>,
                       Head(screen.calls).videoUri, resp, FALSE, FALSE)
    /\ screen' = [screen EXCEPT !.isLoading = FALSE, !.processingStep = "",
                                !.calls = Tail(@)]

(* The login screen (src/app/index.tsx), on the mock AuthService. *)
LoginScreen == [route |-> "Login", isLoading |-> FALSE, calls |-> <<>>]

handleLogin(username, password) ==
    /\ screen.route = "Login"
    /\ ~Disabled(screen.isLoading)
    /\ Len(screen.calls) < MaxInFlight
    /\ screen' = IF username = "" \/ password = ""
                 THEN screen
                 ELSE [screen EXCEPT !.isLoading = TRUE,
                                     !.calls = Append(@, [username |-> username,
                                                          password |-> password])]
    /\ UNCHANGED <<variant, userInfo, token, pending, students, history, now, classRoom,
                   last, tasks>>

(* handleLogin, from the return of login on (its finally). *)
LoginReturns ==
    /\ screen.route = "Login"
    /\ screen.calls # <<>>
    /\ mockLogin(Head(screen.calls).username, Head(screen.calls).password)
    /\ screen' = [screen EXCEPT !.isLoading = FALSE, !.calls = Tail(@)]

-----------------------------------------------------------------------------
InitLocalStore ==
    /\ userInfo = Absent
    /\ token = Absent
    /\ pending = <<>>
    /\ students = <<>>
    /\ history = <<>>
    /\ now = 1
    /\ last = NoCall
    /\ tasks = NoTasks

InitStore == InitLocalStore /\ screen = NoScreen

(* The real AuthService over a Local Store that never fails. *)
InitAuth == InitStore /\ variant = "backend" /\ classRoom = <<>>

NextAuth ==
    \/ \E u \in Usernames, resp \in LoginResponses : Login(u, resp, FALSE, FALSE)
    \/ Logout(FALSE, FALSE)
    \/ IsAuthenticated(FALSE, FALSE)
    \/ GetAuthHeaders(FALSE)
    \/ GetStoredUserCall(FALSE)

SpecAuth == InitAuth /\ [][NextAuth]_vars

(* The real AuthService over a Local Store whose operations may reject. *)
NextAuthFaulty ==
    \/ \E u \in Usernames, resp \in LoginResponses, w1, w2 \in BOOLEAN :
          Login(u, resp, w1, w2)
    \/ \E w1, w2 \in BOOLEAN : Logout(w1, w2)
    \/ \E r1, r2 \in BOOLEAN : IsAuthenticated(r1, r2)
    \/ \E r \in BOOLEAN : GetAuthHeaders(r)
    \/ \E r \in BOOLEAN : GetStoredUserCall(r)

SpecAuthFaulty == InitAuth /\ [][NextAuthFaulty]_vars

(* The mock AuthService. *)
InitAuthMock == InitStore /\ variant = "mock" /\ classRoom = <<>>

NextAuthMock ==
    \/ \E u \in Usernames, p \in Passwords : MockLogin(u, p)
    \/ MockWriteLands
    \/ MockLogout
    \/ MockIsAuthenticated

SpecAuthMock == InitAuthMock /\ [][NextAuthMock]_vars

-----------------------------------------------------------------------------
(* Inputs of the ApiService calls. *)

RollNos == {"01", "02"}
Standards == { <<"5">>, <<"1", "0">> }
Divisions == { <<"A">> }
Labels == { <<"5", "A">>, <<"1", "0", "B">>, <<"5", "a">> }
ClassroomFilters == { <<>>, <<"5", "A">>, <<"5", "a">>, <<"1", "0", "B">> }
VideoUris == { Absent, Some(""), Some("file:///video.mp4") }
PhotoLists == { <<>>, <<"p1.jpg">>, <<"p1.jpg", "p2.jpg">> }
Limits == { 1, DefaultLimit }
LabelAlphabet == {"0", "1", "5", "A", "B", "a"}
PresentCounts == {0, 1, 10}

(* Registration and the student cache, in the backend and in the label    *)
(* build, over a Local Store that never fails, one call at a time.        *)
Init == InitStore /\ variant \in {"backend", "label"} /\ classRoom = <<>>

NextStudents ==
    \/ \E n \in RollNos, st \in Standards, d \in Divisions, v \in VideoUris,
          resp \in RegisterResponses :
          RegisterStudent(n, st, d, v, resp, FALSE, FALSE)
    \/ \E n \in RollNos, c \in Labels, v \in VideoUris, resp \in RegisterResponses :
          RegisterStudentLabel(n, c, v, resp, FALSE, FALSE)
    \/ \E c \in ClassroomFilters : GetStudents(c, FALSE)
    \/ clearAllLocalData(FALSE, FALSE)

SpecStudents == Init /\ [][NextStudents]_vars

(* Attendance processing and the history, on top of registered students, *)
(* in the backend, the label and the mock build.                          *)
InitAll == InitStore /\ variant \in {"backend", "label", "mock"} /\ classRoom = <<>>

NextAttendance ==
    \/ InitializeMockData(FALSE, FALSE)
    \/ \E n \in RollNos :
          RegisterStudentMock(n, <<"5", "A">>, Some("file:///video.mp4"), FALSE, FALSE)
    \/ \E c \in {<<"5", "A">>, <<"5", "a">>}, k \in PresentCounts :
          ProcessAttendanceMock(c, k, FALSE, FALSE, FALSE)
    \/ \E c \in {<<>>, <<"5", "a">>}, l \in Limits : GetAttendanceHistoryMock(c, l, FALSE)
    \/ \E st \in Standards, d \in Divisions :
          RegisterStudent("01", st, d, Some("file:///video.mp4"),
                          Response(200, "json", "", "Student registered", "success", JsonType),
                          FALSE, FALSE)
    \/ \E c \in Labels :
          RegisterStudentLabel("01", c, Some("file:///video.mp4"),
                               Response(200, "json", "", "Student registered", "success", JsonType),
                               FALSE, FALSE)
    \/ \E st \in Standards, d \in Divisions, ph \in PhotoLists,
          resp \in AttendanceResponses :
          ProcessAttendance(st, d, ph, resp, FALSE, FALSE, FALSE)
    \/ \E c \in Labels, ph \in PhotoLists, resp \in AttendanceResponses :
          ProcessAttendanceLabel(c, ph, resp, FALSE, FALSE)
    \/ \E c \in ClassroomFilters, l \in Limits : GetAttendanceHistory(c, l, FALSE)
    \/ clearAllLocalData(FALSE, FALSE)

SpecAttendance == InitAll /\ [][NextAttendance]_vars

(* The label build's parsing, for every classroom text up to MaxLabelLen. *)
InitParser ==
    /\ InitStore
    /\ variant = "label"
    /\ classRoom \in StringsUpTo(LabelAlphabet, MaxLabelLen)

NextParser ==
    \/ \E v \in VideoUris, resp \in RegisterResponses :
          RegisterStudentLabel("01", classRoom, v, resp, FALSE, FALSE)
    \/ \E ph \in PhotoLists, resp \in AttendanceResponses :
          ProcessAttendanceLabel(classRoom, ph, resp, FALSE, FALSE)

SpecParser == InitParser /\ [][NextParser]_vars

(* The session and the requests that carry it: the real AuthService and  *)
(* the backend ApiService over a Local Store that never fails.            *)
NextSession ==
    \/ \E u \in Usernames, resp \in LoginResponses : Login(u, resp, FALSE, FALSE)
    \/ Logout(FALSE, FALSE)
    \/ GetAuthHeaders(FALSE)
    \/ \E resp \in RegisterResponses :
          RegisterStudent("01", <<"5">>, <<"A">>, Some("file:///video.mp4"), resp, FALSE, FALSE)
    \/ \E resp \in AttendanceResponses :
          ProcessAttendance(<<"5">>, <<"A">>, <<"p1.jpg">>, resp, FALSE, FALSE, FALSE)
    \/ \E resp \in StudentsResponses : GetStudentsFromBackend(resp, FALSE)
    \/ GetStudents(<<"5", "a">>, FALSE)
    \/ GetAttendanceHistory(<<>>, DefaultLimit, FALSE)
    \/ clearAllLocalData(FALSE, FALSE)

SpecSession == InitAuth /\ [][NextSession]_vars

(* Every gateway operation over a server that answers anything and a     *)
(* Local Store whose reads and writes may reject.                         *)
NextGateway ==
    \/ \E resp \in { a \in LoginResponses : a.token \in {"", "tokA"} }, w1, w2 \in BOOLEAN :
          Login("teacher1", resp, w1, w2)
    \/ \E v \in {Absent, Some("file:///video.mp4")}, resp \in RegisterResponses,
          r, w \in BOOLEAN :
          RegisterStudent("01", <<"5">>, <<"A">>, v, resp, r, w)
    \/ \E v \in {Absent, Some("file:///video.mp4")}, resp \in RegisterResponses,
          r, w \in BOOLEAN :
          RegisterStudentLabel("01", <<"5", "A">>, v, resp, r, w)
    \/ \E ph \in {<<>>, <<"p1.jpg">>}, resp \in AttendanceResponses, r1, r2, w \in BOOLEAN :
          ProcessAttendance(<<"5">>, <<"A">>, ph, resp, r1, r2, w)
    \/ \E ph \in {<<>>, <<"p1.jpg">>}, resp \in AttendanceResponses, r, w \in BOOLEAN :
          ProcessAttendanceLabel(<<"5", "A">>, ph, resp, r, w)
    \/ \E resp \in StudentsResponses, r \in BOOLEAN : GetStudentsFromBackend(resp, r)
    \/ \E decoded, written, available, shared \in BOOLEAN :
          DownloadExcelFile(<<"5", "A">>, decoded, written, available, shared)

SpecGateway == Init /\ [][NextGateway]_vars

(* A call in two steps: the request is issued, and the call goes on when  *)
(* the answer has arrived. Nothing in the services arms a timer or        *)
(* passes an abort signal to fetch, so a call waits for as long as the    *)
(* answer takes.                                                          *)
Awaiting(call) == [call EXCEPT !.done = FALSE]

BeginLogin(username) ==
    /\ last.done
    /\ last' = Awaiting(Call("login", username, FALSE, NoMessage,
                             Some(LoginRequest(username)), <<>>))
    /\ UNCHANGED <<tasks, screen, variant, userInfo, token, pending, students, history, now, classRoom>>

BeginRegisterStudent(rollNo, standard, division, videoUri) ==
    /\ variant = "backend"
    /\ last.done
    /\ ~Falsy(videoUri)
    /\ last' = Awaiting(Call("registerStudent",
                             RegisterArg(rollNo, standard \o division, videoUri),
                             FALSE, NoMessage,
                             Some(RegisterRequest(rollNo, standard, division,
                                                  AuthHeaders(GetStoredToken(FALSE)))),
                             <<>>))
    /\ UNCHANGED <<tasks, screen, variant, userInfo, token, pending, students, history, now, classRoom>>

BeginProcessAttendance(standard, division, photoUris) ==
    /\ variant = "backend"
    /\ last.done
    /\ photoUris # <<>>
    /\ last' = Awaiting(Call("processAttendance",
                             AttendanceArg(standard \o division, photoUris),
                             FALSE, NoMessage,
                             Some(AttendanceRequest(standard, division, photoUris,
                                                    AuthHeaders(GetStoredToken(FALSE)))),
                             <<>>))
    /\ UNCHANGED <<tasks, screen, variant, userInfo, token, pending, students, history, now, classRoom>>

ResponsesTo(op) ==
    IF op = "login" THEN LoginResponses
    ELSE IF op = "registerStudent" THEN RegisterResponses
    ELSE AttendanceResponses

(* The server answers, or the transport gives up (status 0). *)
ServerResponds ==
    /\ ~last.done
    /\ last.resp = <<>>
    /\ \E resp \in ResponsesTo(last.op) : last' = [last EXCEPT !.resp = <<resp>>]
    /\ UNCHANGED <<tasks, screen, variant, userInfo, token, pending, students, history, now, classRoom>>

ContinueLogin ==
    /\ ~last.done /\ last.op = "login" /\ last.resp # <<>>
    /\ Login(last.arg, last.resp[1], FALSE, FALSE)

ContinueRegisterStudent ==
    /\ ~last.done /\ last.op = "registerStudent" /\ last.resp # <<>>
    /\ RegisterStudent(last.arg.rollNo, last.req[1].standard, last.req[1].division,
                       last.arg.videoUri, last.resp[1], FALSE, FALSE)

ContinueProcessAttendance ==
    /\ ~last.done /\ last.op = "processAttendance" /\ last.resp # <<>>
    /\ ProcessAttendance(last.req[1].standard, last.req[1].division,
                         last.arg.photoUris, last.resp[1], FALSE, FALSE, FALSE)

InitTimeout == InitStore /\ variant = "backend" /\ classRoom = <<>>

NextTimeout ==
    \/ BeginLogin("teacher1")
    \/ BeginRegisterStudent("01", <<"5">>, <<"A">>, Some("file:///video.mp4"))
    \/ BeginProcessAttendance(<<"5">>, <<"A">>, <<"p1.jpg">>)
    \/ ServerResponds
    \/ ContinueLogin
    \/ ContinueRegisterStudent
    \/ ContinueProcessAttendance

(* The event loop runs a continuation whose answer has arrived; nothing *)
(* obliges the server to answer.                                        *)
SpecTimeout ==
    /\ InitTimeout
    /\ [][NextTimeout]_vars
    /\ WF_vars(ContinueLogin)
    /\ WF_vars(ContinueRegisterStudent)
    /\ WF_vars(ContinueProcessAttendance)

(* The student cache over a Local Store whose reads and writes may       *)
(* reject (or whose stored text may not parse, which getStudents treats  *)
(* the same way), one call at a time.                                    *)
NextCache ==
    \/ \E n \in RollNos, resp \in RegisterResponses, r, w \in BOOLEAN :
          RegisterStudent(n, <<"5">>, <<"A">>, Some("file:///video.mp4"), resp, r, w)
    \/ \E n \in RollNos, resp \in RegisterResponses, r, w \in BOOLEAN :
          RegisterStudentLabel(n, <<"5", "A">>, Some("file:///video.mp4"), resp, r, w)
    \/ \E c \in ClassroomFilters, r \in BOOLEAN : GetStudents(c, r)

SpecCache == Init /\ [][NextCache]_vars

(* Calls that overlap. A call runs up to its next await and goes on when  *)
(* what it waits for has arrived, so the steps of two calls interleave at *)
(* their awaits: the answer of the server, the getItem and the setItem of *)
(* the Local Store.                                                        *)
(*   pc       : "fetch" | "read" | "write" | "done"                        *)
(*   snapshot : the list the call read                                     *)
(*   after    : the calls that had returned when this one was made         *)
Task(op, arg, pc, after) ==
    [op |-> op, arg |-> arg, pc |-> pc, snapshot |-> <<>>, ret |-> FALSE, after |-> after]

Returned == { i \in DOMAIN tasks : tasks[i].pc = "done" }

(* registerStudent is called: the request is sent. *)
StartRegisterStudent(rollNo, standard, division) ==
    /\ variant = "backend"
    /\ Len(tasks) < MaxTasks
    /\ tasks' = Append(tasks, Task("registerStudent",
                                   Student(rollNo, standard \o division), "fetch", Returned))
    /\ UNCHANGED <<variant, userInfo, token, pending, students, history, now, classRoom,
                   last, screen>>

(* The server answers: on success storeStudentLocally is entered and its  *)
(* getStudents() is awaited, otherwise the call returns its failure.      *)
RegisterStudentAnswered(i, resp) ==
    /\ i \in DOMAIN tasks
    /\ tasks[i].op = "registerStudent" /\ tasks[i].pc = "fetch"
    /\ tasks' = [tasks EXCEPT ![i].pc = IF RegisterOutcome(resp).ret THEN "read" ELSE "done"]
    /\ UNCHANGED <<variant, userInfo, token, pending, students, history, now, classRoom,
                   last, screen>>

(* saveAttendanceRecord(record) is called: storeAttendanceRecordLocally is *)
(* entered and its getAttendanceHistory() is awaited.                      *)
StartSaveAttendanceRecord(classroom) ==
    /\ variant \in {"backend", "label"}
    /\ Len(tasks) < MaxTasks
    /\ tasks' = Append(tasks, Task("saveAttendanceRecord",
                                   AttendanceRecord(now, classroom, 0, 0, 0), "read",
                                   Returned))
    /\ now' = now + 1
    /\ UNCHANGED <<variant, userInfo, token, pending, students, history, classRoom,
                   last, screen>>

(* The getItem of a call is served: the call holds the list as it is now, *)
(* builds the updated list from it and hands it to setItem.               *)
TaskReads(i) ==
    /\ i \in DOMAIN tasks
    /\ tasks[i].pc = "read"
    /\ tasks' = [tasks EXCEPT ![i].pc = "write",
                              ![i].snapshot = IF tasks[i].op = "registerStudent"
                                              THEN getStudents(<<>>, FALSE)
                                              ELSE getAttendanceHistory(<<>>, DefaultLimit,
                                                                        FALSE)]
    /\ UNCHANGED <<variant, userInfo, token, pending, students, history, now, classRoom,
                   last, screen>>

(* The setItem of a call is served and the call returns. *)
TaskWrites(i) ==
    /\ i \in DOMAIN tasks
    /\ tasks[i].pc = "write"
    /\ students' = IF tasks[i].op = "registerStudent"
                   THEN updatedStudents(tasks[i].snapshot, tasks[i].arg)
                   ELSE students
    /\ history' = IF tasks[i].op = "saveAttendanceRecord"
                  THEN trimmedRecords(tasks[i].snapshot, tasks[i].arg)
                  ELSE history
    /\ tasks' = [tasks EXCEPT ![i].pc = "done", ![i].ret = TRUE]
    /\ last' = Call(tasks[i].op, tasks[i].arg, TRUE, NoMessage, NoRequest, tasks[i].snapshot)
    /\ UNCHANGED <<variant, userInfo, token, pending, now, classRoom, screen>>

NextOverlap ==
    \/ \E n \in RollNos : StartRegisterStudent(n, <<"5">>, <<"A">>)
    \/ \E i \in 1..MaxTasks,
          resp \in { Response(200, "json", "", "Student registered", "success", JsonType),
                     Response(422, "json", "", "", "", JsonType) } :
          RegisterStudentAnswered(i, resp)
    \/ \E c \in { <<"5", "A">>, <<"1", "0", "B">> } : StartSaveAttendanceRecord(c)
    \/ \E i \in 1..MaxTasks : TaskReads(i)
    \/ \E i \in 1..MaxTasks : TaskWrites(i)

SpecOverlap == Init /\ [][NextOverlap]_vars

(* Overlapping calls of the mock build: registerStudent waits for its      *)
(* timer and its getItem, checks the list it read and waits for its        *)
(* setItem; initializeMockData reads and, when nothing is stored, writes   *)
(* the sample students.                                                    *)
StartRegisterStudentMock(rollNo, classroom) ==
    /\ variant = "mock"
    /\ Len(tasks) < MaxTasks
    /\ tasks' = Append(tasks, Task("registerStudent", Student(rollNo, classroom), "read",
                                   Returned))
    /\ UNCHANGED <<variant, userInfo, token, pending, students, history, now, classRoom,
                   last, screen>>

StartInitializeMockData ==
    /\ variant = "mock"
    /\ Len(tasks) < MaxTasks
    /\ tasks' = Append(tasks, Task("initializeMockData", Student("", <<>>), "read", Returned))
    /\ UNCHANGED <<variant, userInfo, token, pending, students, history, now, classRoom,
                   last, screen>>

(* The getItem is served; registerStudent returns its refusal when the    *)
(* list it read holds the roll number in the classroom.                   *)
TaskReadsMock(i) ==
    LET task == tasks[i]
        found == IF task.op = "registerStudent"
                 THEN findExisting(students, task.arg.rollNo, task.arg.classroom) # {}
                 ELSE students # <<>>
    IN  /\ variant = "mock"
        /\ i \in DOMAIN tasks
        /\ task.pc = "read"
        /\ tasks' = [tasks EXCEPT ![i].pc = IF found THEN "done" ELSE "write",
                                  ![i].snapshot = students]
        /\ last' = IF found
                   THEN Call(task.op, task.arg, task.op = "initializeMockData",
                             IF task.op = "registerStudent" THEN DuplicateStudent ELSE NoMessage,
                             NoRequest, students)
                   ELSE last
        /\ UNCHANGED <<variant, userInfo, token, pending, students, history, now, classRoom,
                       screen>>

(* The setItem is served and the call returns. *)
TaskWritesMock(i) ==
    LET task == tasks[i]
    IN  /\ variant = "mock"
        /\ i \in DOMAIN tasks
        /\ task.pc = "write"
        /\ students' = IF task.op = "registerStudent" THEN Append(task.snapshot, task.arg)
                       ELSE mockStudentData
        /\ tasks' = [tasks EXCEPT ![i].pc = "done", ![i].ret = TRUE]
        /\ last' = Call(task.op, task.arg, TRUE, NoMessage, NoRequest, task.snapshot)
        /\ UNCHANGED <<variant, userInfo, token, pending, history, now, classRoom, screen>>

NextOverlapMock ==
    \/ \E n \in {"01", "21"}, c \in { <<"5", "A">>, <<"5", "a">> } :
          StartRegisterStudentMock(n, c)
    \/ StartInitializeMockData
    \/ \E i \in 1..MaxTasks : TaskReadsMock(i)
    \/ \E i \in 1..MaxTasks : TaskWritesMock(i)

SpecOverlapMock == InitAuthMock /\ [][NextOverlapMock]_vars

(* login and logout that overlap, in the real AuthService: login waits    *)
(* for the answer, for its setItem of the user-info and for its setItem   *)
(* of the token; logout waits for its two removeItem calls. Nothing orders *)
(* the steps of one call against those of the other.                      *)
(*   pc : "fetch" | "write" | "write2" | "remove" | "remove2" | "done"     *)
StartLogin(username) ==
    /\ Len(tasks) < MaxTasks
    /\ tasks' = Append(tasks, Task("login", User(username, ""), "fetch", Returned))
    /\ UNCHANGED <<variant, userInfo, token, pending, students, history, now, classRoom,
                   last, screen>>

(* The answer arrives: a 2xx JSON answer makes login issue its first      *)
(* write, any other makes it return its failure.                          *)
LoginAnswered(i, resp) ==
    LET ok == Transport(resp) /\ ResponseOk(resp) /\ resp.body = "json"
    IN  /\ i \in DOMAIN tasks
        /\ tasks[i].op = "login" /\ tasks[i].pc = "fetch"
        /\ tasks' = [tasks EXCEPT ![i].pc = IF ok THEN "write" ELSE "done",
                                  ![i].arg = User(tasks[i].arg.username, resp.token)]
        /\ UNCHANGED <<variant, userInfo, token, pending, students, history, now, classRoom,
                       last, screen>>

(* setItem(AUTH_KEY, userInfo) is served; login issues setItem(TOKEN_KEY). *)
LoginWritesUser(i) ==
    /\ i \in DOMAIN tasks
    /\ tasks[i].op = "login" /\ tasks[i].pc = "write"
    /\ userInfo' = Some(tasks[i].arg)
    /\ tasks' = [tasks EXCEPT ![i].pc = "write2"]
    /\ UNCHANGED <<variant, token, pending, students, history, now, classRoom, last, screen>>

(* setItem(TOKEN_KEY, access_token) is served and login returns success. *)
LoginWritesToken(i) ==
    /\ i \in DOMAIN tasks
    /\ tasks[i].op = "login" /\ tasks[i].pc = "write2"
    /\ token' = Some(tasks[i].arg.accessToken)
    /\ tasks' = [tasks EXCEPT ![i].pc = "done", ![i].ret = TRUE]
    /\ last' = Call("login", tasks[i].arg.username, TRUE, NoMessage,
                    Some(LoginRequest(tasks[i].arg.username)), <<>>)
    /\ UNCHANGED <<variant, userInfo, pending, students, history, now, classRoom, screen>>

StartLogout ==
    /\ Len(tasks) < MaxTasks
    /\ tasks' = Append(tasks, Task("logout", User("", ""), "remove", Returned))
    /\ UNCHANGED <<variant, userInfo, token, pending, students, history, now, classRoom,
                   last, screen>>

(* removeItem(AUTH_KEY) is served; logout issues removeItem(TOKEN_KEY). *)
LogoutRemovesUser(i) ==
    /\ i \in DOMAIN tasks
    /\ tasks[i].op = "logout" /\ tasks[i].pc = "remove"
    /\ userInfo' = Absent
    /\ tasks' = [tasks EXCEPT ![i].pc = "remove2"]
    /\ UNCHANGED <<variant, token, pending, students, history, now, classRoom, last, screen>>

(* removeItem(TOKEN_KEY) is served and logout returns. *)
LogoutRemovesToken(i) ==
    /\ i \in DOMAIN tasks
    /\ tasks[i].op = "logout" /\ tasks[i].pc = "remove2"
    /\ token' = Absent
    /\ tasks' = [tasks EXCEPT ![i].pc = "done", ![i].ret = TRUE]
    /\ last' = Call("logout", [hadUser |-> FALSE], TRUE, NoMessage, NoRequest, <<>>)
    /\ UNCHANGED <<variant, userInfo, pending, students, history, now, classRoom, screen>>

NextOverlapAuth ==
    \/ \E u \in {"teacher1", "teacher2"} : StartLogin(u)
    \/ \E i \in 1..MaxTasks, resp \in LoginResponses : LoginAnswered(i, resp)
    \/ \E i \in 1..MaxTasks : LoginWritesUser(i)
    \/ \E i \in 1..MaxTasks : LoginWritesToken(i)
    \/ StartLogout
    \/ \E i \in 1..MaxTasks : LogoutRemovesUser(i)
    \/ \E i \in 1..MaxTasks : LogoutRemovesToken(i)

SpecOverlapAuth == InitAuth /\ [][NextOverlapAuth]_vars

(* The screens, one shown per behaviour: the login screen on the mock     *)
(* AuthService, the register-student screen on the backend ApiService and *)
(* the take-attendance screen on the label ApiService.                    *)
InitScreens ==
    /\ InitLocalStore
    /\ classRoom = <<>>
    /\ \/ screen = LoginScreen /\ variant = "mock"
       \/ screen = RegisterStudentScreen /\ variant = "backend"
       \/ screen = TakeAttendanceScreen /\ variant = "label"

ScreenAttendanceResponses ==
    { Response(200, "blob", "", "", "", Spreadsheet),
      Response(200, "json", "", "", "", JsonType),
      Response(0, "notjson", "", "", "", <<>>) }

NextScreens ==
    \/ \E u \in {"", "teacher1"}, p \in {"", "password", "wrong"} : handleLogin(u, p)
    \/ LoginReturns
    \/ MockWriteLands
    \/ \E result \in CameraResults : pickVideo(result)
    \/ \E filled \in BOOLEAN, n \in RollNos : handleRegister(filled, n)
    \/ \E run \in 1..MaxRuns : TimerFires(run)
    \/ \E resp \in RegisterResponses : RegisterReturns(resp)
    \/ \E text \in { <<>>, <<"5", "A">> } : setClassRoom(text)
    \/ \E result \in CameraResults : openCamera(result)
    \/ \E result \in GalleryResults : openGallery(result)
    \/ \E index \in 1..MaxPhotos : removePhoto(index)
    \/ clearAllPhotos
    \/ handleTakeAttendance
    \/ \E resp \in ScreenAttendanceResponses : TakeAttendanceReturns(resp)
    \/ ProcessAnotherClass

SpecScreens == InitScreens /\ [][NextScreens]_vars

(* The order of the history: records of several classrooms saved one     *)
(* after another in every build, and read back with a filter and a limit. *)
(* The first saves take any classroom, the later ones take them in turn.  *)
ClassroomsAt(n) ==
    IF n <= MaxHistory THEN Labels
    ELSE IF n % 3 = 0 THEN { <<"1", "0", "B">> }
    ELSE IF n % 3 = 1 THEN { <<"5", "A">> }
    ELSE { <<"5", "a">> }

NextOrder ==
    \/ \E c \in ClassroomsAt(now) : SaveAttendanceRecord(c, FALSE, FALSE)
    \/ \E c \in ClassroomsAt(now) : SaveAttendanceRecordMock(c, FALSE, FALSE)
    \/ \E c \in {<<>>, <<"5", "a">>}, l \in Limits : GetAttendanceHistory(c, l, FALSE)
    \/ \E c \in {<<>>, <<"5", "a">>}, l \in Limits : GetAttendanceHistoryMock(c, l, FALSE)

SpecOrder == InitAll /\ [][NextOrder]_vars

(* The history cap: records saved and attendance processed one after     *)
(* another, on a history that grows long.                                *)
InitCap == InitStore /\ variant \in {"backend", "label"} /\ classRoom = <<>>

NextCap ==
    \/ SaveAttendanceRecord(<<"5", "A">>, FALSE, FALSE)
    \/ \E resp \in AttendanceResponses :
          ProcessAttendanceLong(<<"5">>, <<"A">>, <<"p1.jpg">>, resp, FALSE, FALSE, FALSE)
    \/ \E resp \in AttendanceResponses :
          ProcessAttendanceLabelLong(<<"5", "A">>, <<"p1.jpg">>, resp, FALSE, FALSE)

SpecCap == InitCap /\ [][NextCap]_vars

-----------------------------------------------------------------------------
(* Properties. *)

ApiCalls == {"registerStudent", "processAttendance"}

(* The students of a list with this roll number in this classroom. *)
CountOf(list, rollNo, classroom) ==
    Cardinality({ i \in DOMAIN list :
                    list[i].rollNo = rollNo /\ list[i].classroom = classroom })

(* A label that is digits followed by exactly one uppercase letter. *)
DigitRun(label) == SubSeq(label, 1, Len(label) - 1)
Letter(label) == <<label[Len(label)]>>
WellFormed(label) ==
    /\ label # <<>>
    /\ DigitRun(label) # <<>>
    /\ { DigitRun(label)[i] : i \in DOMAIN DigitRun(label) } \subseteq DigitChars
    /\ Letter(label)[1] \in UpperChars

(* The call got past its first check (a video, at least one photo). *)
ReachedParser(call) ==
    \/ call.op = "registerStudent" /\ call.arg.videoUri \notin {Absent, Some("")}
    \/ call.op = "processAttendance" /\ call.arg.photoUris # <<>>

(* C1: once more than HistoryCap records have been saved one after another, *)
(* the persisted history holds exactly the HistoryCap most recently saved  *)
(* records, most recent first.                                             *)
C1_HistoryKeepsCapMostRecent ==
    (now - 1 > HistoryCap) =>
        /\ Len(history) = HistoryCap
        /\ \A i \in 1..HistoryCap : history[i].id = now - i

C3_AuthenticatedIffUserAndToken ==
    last.op = "isAuthenticated" =>
        (last.ret <=> (IsPresent(userInfo) /\ IsPresent(token)))

(* C4: an isAuthenticated() call made right after a login that returned    *)
(* success returns true.                                                   *)
C4_AuthenticatedAfterLogin ==
    [][ (last.op = "login" /\ last.ret /\ last'.op = "isAuthenticated") => last'.ret ]_vars

(* C5: an isAuthenticated() call made after logout() has returned returns  *)
(* false, also when the logout followed a successful login.                *)
C5_NotAuthenticatedAfterLogout ==
    [][ (last.op = "logout" /\ last'.op = "isAuthenticated") => ~last'.ret ]_vars

(* C6: logout() returns normally whether or not a session exists, and      *)
(* after every call neither the user-info nor the token is in the Local    *)
(* Store.                                                                  *)
C6_LogoutClearsSession ==
    last.op = "logout" => (last.ret /\ userInfo = Absent /\ token = Absent)

C6_Witness == last.op = "logout" /\ last.arg.hadUser

(* C7: a login that returns a failure has written nothing: the user-info   *)
(* and the token are what they were before the call.                       *)
C7_FailedLoginStoresNothing ==
    [][ (last'.op = "login" /\ ~last'.ret) =>
            (userInfo' = userInfo /\ token' = token) ]_vars

(* C8: registerStudent without a video reference returns the failure       *)
(* 'Video is required for student registration', issues no HTTP request    *)
(* and leaves the cached student list unchanged, whatever else it is given. *)
C8_NoVideoFailsFast ==
    [][ (last'.op = "registerStudent" /\ last'.arg.videoUri \in {Absent, Some("")}) =>
            /\ ~last'.ret
            /\ last'.msg = VideoRequired
            /\ last'.req = NoRequest
            /\ students' = students ]_vars

C8_Witness ==
    /\ last.op = "registerStudent"
    /\ last.arg.videoUri = Some("")
    /\ last.msg = VideoRequired
    /\ students # <<>>

(* C9 as claimed: a classroom label that is not digits followed by one     *)
(* uppercase letter makes registerStudent and processAttendance return the *)
(* format error, with no HTTP request.                                     *)
C9_MalformedLabelIsFormatError ==
    (last.op \in ApiCalls /\ ~WellFormed(last.arg.classroom)) =>
        (~last.ret /\ last.msg = ClassroomFormat /\ last.req = NoRequest)

(* C9 as amended: such a label makes registerStudent and processAttendance *)
(* return a failure with no HTTP request and the Local Store unchanged;    *)
(* the failure is the format error when a video (at least one photo) was   *)
(* given, and the missing-video (missing-photo) error otherwise.           *)
C9_MalformedLabelFails ==
    [][ (last'.op \in ApiCalls /\ ~WellFormed(last'.arg.classroom)) =>
            /\ ~last'.ret
            /\ last'.req = NoRequest
            /\ students' = students /\ history' = history
            /\ last'.msg = IF ReachedParser(last') THEN ClassroomFormat
                           ELSE IF last'.op = "registerStudent" THEN VideoRequired
                           ELSE PhotoRequired ]_vars

C9_Witness ==
    /\ last.op = "processAttendance"
    /\ last.arg.classroom = <<"5", "A", "B">>
    /\ last.msg = ClassroomFormat

(* C10 as claimed: for a well-formed label the parser yields the digit run *)
(* and the letter, and these are the standard and the division sent to the *)
(* server; for any other string it yields the format error and nothing is  *)
(* sent.                                                                   *)
C10_DigitRunAndLetterAreSent ==
    (last.op \in ApiCalls /\ ReachedParser(last)) =>
        IF WellFormed(last.arg.classroom)
        THEN /\ classroomMatch(last.arg.classroom)
                  = Some([standard |-> DigitRun(last.arg.classroom),
                          division |-> Letter(last.arg.classroom)])
             /\ last.req # NoRequest
             /\ last.req[1].standard = DigitRun(last.arg.classroom)
             /\ last.req[1].division = Letter(last.arg.classroom)
        ELSE /\ classroomMatch(last.arg.classroom) = <<>>
             /\ last.msg = ClassroomFormat
             /\ last.req = NoRequest

(* C10 as amended: the same, except that the standard is sent with "th"    *)
(* appended to the digit run ("10B" is sent as "10th", "B").               *)
C10_DigitRunThAndLetterAreSent ==
    (last.op \in ApiCalls /\ ReachedParser(last)) =>
        IF WellFormed(last.arg.classroom)
        THEN /\ classroomMatch(last.arg.classroom)
                  = Some([standard |-> DigitRun(last.arg.classroom),
                          division |-> Letter(last.arg.classroom)])
             /\ last.req # NoRequest
             /\ last.req[1].standard = DigitRun(last.arg.classroom) \o <<"t", "h">>
             /\ last.req[1].division = Letter(last.arg.classroom)
        ELSE /\ classroomMatch(last.arg.classroom) = <<>>
             /\ last.msg = ClassroomFormat
             /\ last.req = NoRequest

C10_Witness ==
    /\ last.op = "registerStudent"
    /\ last.arg.classroom = <<"1", "0", "B">>
    /\ last.req # NoRequest
    /\ last.req[1].standard = <<"1", "0", "t", "h">>

(* The answer a call got was 2xx; its content-type names a spreadsheet. *)
Is2xx(call) == call.resp # <<>> /\ call.resp[1].status \in 200..299
NamesSpreadsheet(call) ==
    "spreadsheetml" \in { call.resp[1].ctype[i] : i \in DOMAIN call.resp[1].ctype }

(* C11: a processAttendance call answered 2xx with a content-type that     *)
(* contains 'spreadsheetml' returns success with the payload, and the      *)
(* history grows by exactly one record, whose classroom is the one asked   *)
(* for.                                                                    *)
C11_HistoryGrowsByOne ==
    [][ (last'.op = "processAttendance" /\ Is2xx(last') /\ NamesSpreadsheet(last')) =>
            /\ last'.ret
            /\ last'.out # <<>>
            /\ Len(history') = Len(history) + 1
            /\ history'[1].classroom = last'.arg.classroom ]_vars

(* C12: a processAttendance call answered 2xx with a content-type that     *)
(* does not contain 'spreadsheetml', or with none, returns the failure     *)
(* 'Unexpected response format' and adds no record to the history.         *)
C12_OtherContentTypeIsUnexpected ==
    [][ (last'.op = "processAttendance" /\ Is2xx(last') /\ ~NamesSpreadsheet(last')) =>
            /\ ~last'.ret
            /\ last'.msg = UnexpectedFormat
            /\ last'.out = <<>>
            /\ history' = history ]_vars

C12_Witness ==
    /\ last.op = "processAttendance"
    /\ Is2xx(last) /\ last.resp[1].ctype = <<>>
    /\ last.msg = UnexpectedFormat
    /\ history # <<>>

GatewayOps ==
    {"login", "registerStudent", "processAttendance", "downloadExcelFile",
     "getStudentsFromBackend"}

(* C13: every gateway operation ends by returning a result, a failure with *)
(* its message when it did not succeed, and never by throwing to its       *)
(* caller, whatever the server answers and whether or not the Local Store  *)
(* rejects.                                                                *)
C13_GatewayNeverRaises ==
    last.op \in GatewayOps =>
        /\ ~last.raised
        /\ last.ret \in BOOLEAN
        /\ ~last.ret => last.msg # NoMessage

C13_Witness ==
    /\ last.op = "registerStudent"
    /\ last.resp # <<>> /\ last.resp[1].status = 500 /\ last.resp[1].body = "notjson"
    /\ ~last.ret
    /\ students # <<>>

(* C14: every login, registerStudent and processAttendance call whose      *)
(* request was issued eventually returns, also when the server never       *)
(* answers.                                                                *)
C14_HungRequestReturns == (~last.done) ~> last.done

(* C15 as claimed: downloadExcelFile returns success exactly when the file *)
(* was written and offered for sharing; a failed decoding, a failed write  *)
(* and an unavailable share mechanism each give a failure.                 *)
C15_SuccessIffWrittenAndOffered ==
    last.op = "downloadExcelFile" =>
        /\ ~last.raised
        /\ last.ret <=> (last.out.written /\ last.out.sharing = "offered")

(* C15 as amended: downloadExcelFile returns success exactly when the file *)
(* was written and either offered for sharing or the share mechanism is    *)
(* unavailable; a failed decoding, a failed write and a failed share call  *)
(* each give a failure with its message, and nothing is thrown.            *)
C15_SuccessIffWrittenAndSharedIfAvailable ==
    last.op = "downloadExcelFile" =>
        /\ ~last.raised
        /\ last.ret <=> (last.out.written /\ last.out.sharing \in {"offered", "unavailable"})
        /\ last.ret => (last.msg = Downloaded /\ last.out.filePath # <<>>)
        /\ ~last.ret => (last.msg \in {SaveFailed, ProcessFailed} /\ last.out.filePath = <<>>)

C15_Witness ==
    /\ last.op = "downloadExcelFile"
    /\ last.ret
    /\ last.out.sharing = "unavailable"

(* The generic failure message of an endpoint. *)
Fallback(op) ==
    IF op = "login" THEN InvalidLogin
    ELSE IF op = "registerStudent" THEN RegisterFailed
    ELSE AttendanceFailed

(* C16: a login, registerStudent or processAttendance request answered     *)
(* with a status outside 2xx returns a failure whose message is the one in *)
(* the payload when it has one and the endpoint's generic fallback         *)
(* otherwise, also for a body that is not JSON; the network-error message  *)
(* is returned only when the transport failed.                             *)
C16_ServerMessageOrFallback ==
    (/\ last.op \in {"login", "registerStudent", "processAttendance"}
     /\ last.resp # <<>>
     /\ last.resp[1].status # 0 /\ ~Is2xx(last)) =>
        /\ ~last.ret
        /\ last.msg # NetworkError
        /\ last.msg = IF last.resp[1].message # "" THEN last.resp[1].message
                      ELSE Fallback(last.op)

(* C17: every mutating call that returns success has written through to    *)
(* the Local Store, whether or not reads and writes of the store fail:     *)
(* after a successful registerStudent the student is in the persisted      *)
(* list, after a successful processAttendance the new record is in the     *)
(* persisted history, after a successful login user-info and token are     *)
(* stored.                                                                 *)
C17_SuccessWritesThrough ==
    [][ /\ (last'.op = "registerStudent" /\ last'.ret) =>
              \E i \in DOMAIN students' :
                  students'[i] = Student(last'.arg.rollNo, last'.arg.classroom)
        /\ (last'.op = "processAttendance" /\ last'.ret) =>
              \E i \in DOMAIN history' :
                  /\ history'[i].id = now
                  /\ history'[i].classroom = last'.arg.classroom
        /\ (last'.op = "login" /\ last'.ret) =>
              /\ userInfo' = Some(User(last'.arg, last'.resp[1].token))
              /\ token' = Some(last'.resp[1].token) ]_vars

RequestOps == {"registerStudent", "processAttendance", "getStudentsFromBackend"}

Bearer(tok) == Some([Authorization |-> <<"Bearer ", tok>>])

C19_TotalIsPresentPlusAbsent ==
    /\ \A i \in DOMAIN history :
          /\ history[i].total = history[i].present + history[i].absent
          /\ history[i].present \in 0..history[i].total
          /\ history[i].absent \in 0..history[i].total
    /\ \A t \in 0..MaxClassSize : EstimatedPresent(t) \in 0..t

C19_Witness ==
    \E i \in DOMAIN history :
        /\ history[i].present > 0
        /\ history[i].absent > 0
        /\ last.op = "processAttendance" /\ last.ret

(* The positions of the history whose classroom is c up to case; every    *)
(* position when c is empty.                                              *)
Matching(c) ==
    { i \in DOMAIN history :
        c = <<>> \/ toLowerCase(history[i].classroom) = toLowerCase(c) }

(* The k-th smallest position of a set of positions. *)
Nth(positions, k) ==
    CHOOSE i \in positions : Cardinality({ j \in positions : j <= i }) = k

(* C20: the persisted history is in reverse insertion order, a record      *)
(* saved later standing before every record saved earlier, and             *)
(* getAttendanceHistory(classroom, limit) returns the first `limit`        *)
(* records of that order whose classroom matches up to case.               *)
C20_MostRecentFirst ==
    /\ \A i, j \in DOMAIN history : i < j => history[i].id > history[j].id
    /\ last.op = "getAttendanceHistory" =>
          LET positions == Matching(last.arg.classroom)
              n == IF Cardinality(positions) < last.arg.limit
                   THEN Cardinality(positions) ELSE last.arg.limit
          IN  /\ Len(last.out) = n
              /\ \A k \in 1..n : last.out[k] = history[Nth(positions, k)]

C20_Witness ==
    /\ last.op = "getAttendanceHistory"
    /\ last.arg.classroom = <<"5", "a">>
    /\ Len(last.out) = DefaultLimit
    /\ \E k \in 1..DefaultLimit : last.out[k].classroom = <<"5", "A">>
    /\ Cardinality(Matching(<<"5", "a">>)) > DefaultLimit

(* The record of a call is in the persisted list of its operation. *)
Persisted(task) ==
    IF task.op = "registerStudent"
    THEN \E k \in DOMAIN students : students[k] = task.arg
    ELSE \E k \in DOMAIN history : history[k] = task.arg

(* Two calls overlapped: the later one was made before the earlier one had *)
(* returned.                                                               *)
Overlapped(i, j) == i < j /\ i \notin tasks[j].after

(* C21: the lists of the Local Store are updated by an unlocked            *)
(* read-modify-write. The persisted list is what the call that wrote last  *)
(* had read, with its own record added (last write wins), whatever other   *)
(* calls wrote in between; and when no two calls overlapped, the record of *)
(* every call that returned success is in the persisted list.              *)
C21_LastWriteWins ==
    /\ (last.op = "registerStudent" /\ last.ret) => students = last.out \o <<last.arg>>
    /\ (last.op = "saveAttendanceRecord" /\ last.ret) => history = <<last.arg>> \o last.out
    /\ (\A i, j \in DOMAIN tasks : ~Overlapped(i, j)) =>
          \A i \in DOMAIN tasks : tasks[i].ret => Persisted(tasks[i])

(* Two overlapping registerStudent calls have both returned success and    *)
(* the persisted list holds the student of one of them only.               *)
C21_Witness ==
    \E i, j \in DOMAIN tasks :
        /\ Overlapped(i, j)
        /\ tasks[i].op = "registerStudent" /\ tasks[j].op = "registerStudent"
        /\ tasks[i].ret /\ tasks[j].ret
        /\ tasks[i].arg # tasks[j].arg
        /\ Len(students) = 1
        /\ ~(Persisted(tasks[i]) /\ Persisted(tasks[j]))

C23_MockHistoryKeepsCapMostRecent ==
    variant = "mock" =>
        /\ Len(history) <= MockHistoryCap
        /\ (now - 1 > MockHistoryCap) =>
              /\ Len(history) = MockHistoryCap
              /\ \A i \in 1..MockHistoryCap : history[i].id = now - i

C23_Witness ==
    /\ variant = "mock"
    /\ last.op = "saveAttendanceRecord"
    /\ now - 1 > MockHistoryCap + 1
    /\ Len(history) = MockHistoryCap
    /\ history[MockHistoryCap].id > 1

(* The list holds this roll number in this classroom. *)
Holds(list, student) ==
    \E k \in DOMAIN list :
        list[k].rollNo = student.rollNo /\ list[k].classroom = student.classroom

(* C24: in the mock build registerStudent refuses, with 'Student with this *)
(* roll number already exists in the class', exactly the students whose    *)
(* roll number and classroom are in the list the call read, and in every   *)
(* reachable state, overlapping calls included, no two cached students     *)
(* share roll number and classroom.                                        *)
C24_RollNumberUniqueInClass ==
    /\ \A i, j \in DOMAIN students :
          (students[i].rollNo = students[j].rollNo
           /\ students[i].classroom = students[j].classroom) => i = j
    /\ last.op = "registerStudent" =>
          /\ last.ret <=> ~Holds(last.out, last.arg)
          /\ ~last.ret => last.msg = DuplicateStudent

(* Two overlapping registerStudent calls for the same student have both    *)
(* returned success.                                                      *)
C24_Witness ==
    \E i, j \in DOMAIN tasks :
        /\ i < j /\ i \notin tasks[j].after
        /\ tasks[i].op = "registerStudent" /\ tasks[j].op = "registerStudent"
        /\ tasks[i].arg = tasks[j].arg
        /\ tasks[i].ret /\ tasks[j].ret

(* C25: when a login and a logout have overlapped and both have returned,  *)
(* the Local Store holds both the user-info and the token or neither of    *)
(* them; no token is left stored without user-info.                        *)
C25_SessionWholeAfterOverlap ==
    (tasks # <<>> /\ \A i \in DOMAIN tasks : tasks[i].pc = "done") =>
        ((userInfo # <<>>) <=> (token # <<>>))

(* C26: a registerStudent call that returns success only adds to the       *)
(* cache: every student of the persisted list before the call is in the    *)
(* persisted list after it, also when the read inside storeStudentLocally  *)
(* rejects or yields text that does not parse.                             *)
C26_SuccessOnlyAdds ==
    [][ (last'.op = "registerStudent" /\ last'.ret) =>
            \A k \in DOMAIN students : \E m \in DOMAIN students' :
                students'[m] = students[k] ]_vars

(* C27: a registerStudent or processAttendance call that returns a failure *)
(* (missing video or photo, transport failure, status outside 2xx, 2xx     *)
(* with status 'error', unexpected content-type) leaves the persisted      *)
(* student list and the persisted history exactly as they were.            *)
C27_FailureLeavesListsAlone ==
    [][ (last'.op \in {"registerStudent", "processAttendance"} /\ ~last'.ret) =>
            (students' = students /\ history' = history) ]_vars

C27_Witness ==
    /\ last.op = "registerStudent"
    /\ ~last.ret
    /\ last.resp # <<>> /\ last.resp[1].status = 200 /\ last.resp[1].state = "error"
    /\ students # <<>>
    /\ history # <<>>

(* C28: on the take-attendance screen photosUploaded is true exactly when *)
(* photoUris is non-empty, after every sequence of openCamera,            *)
(* openGallery, removePhoto and clearAllPhotos, and no processAttendance  *)
(* call was given an empty photo list.                                    *)
C28_PhotosUploadedIffPhotos ==
    screen.route = "TakeAttendance" =>
        /\ screen.photosUploaded <=> (screen.photoUris # <<>>)
        /\ \A i \in DOMAIN screen.calls : screen.calls[i].photoUris # <<>>

(* C29: on the register-student screen processingStep is empty whenever   *)
(* isLoading is false: once handleRegister has finished no later event    *)
(* sets processingStep to a non-empty text.                               *)
C29_NoStepTextWhenIdle ==
    (screen.route = "RegisterStudent" /\ ~screen.isLoading) => screen.processingStep = ""

(* C30: on each of the three screens the busy flag (isLoading on the login *)
(* and register-student screens, isProcessing on the take-attendance      *)
(* screen) is true exactly while a service call of the screen has not     *)
(* returned, whatever the calls before it returned, and at most one call  *)
(* of the screen is in flight.                                            *)
C30_BusyExactlyWhileOneCallInFlight ==
    /\ screen.route \in {"Login", "RegisterStudent"} =>
           /\ Len(screen.calls) <= 1
           /\ screen.isLoading <=> (Len(screen.calls) = 1)
    /\ screen.route = "TakeAttendance" =>
           /\ Len(screen.calls) <= 1
           /\ screen.isProcessing <=> (Len(screen.calls) = 1)

C30_Witness ==
    /\ screen.route = "RegisterStudent"
    /\ last.op = "registerStudent" /\ ~last.ret
    /\ students # <<>>
    /\ screen.calls = <<>> /\ ~screen.isLoading

=============================================================================
